---- MODULE Spec2Model ----
(***************************************************************************)
(* F1 lap-times pipeline (engineering/f1_lap_times_pipeline.py):           *)
(* F1LapTimesProcessor with extract / validate_data / transform /          *)
(* get_top_n / load_csv / load_json / print_summary / run_pipeline.        *)
(*                                                                         *)
(* Numbers.  A lap time is an integer number of time units, Scale units to *)
(* the thousandth of a second, so that rounding to 3 decimals has work to  *)
(* do.  A mean is the exact fraction sum/count; reported (rounded) times   *)
(* are integers in thousandths.  A cell of the input is a record           *)
(* [k, v]: k = "num" (a number v), "nan" (an empty cell, which read_csv    *)
(* reads as NaN) or "str" (text that is no number); a Driver cell is       *)
(* "name" (driver v; the order of v stands for the order of the names) or  *)
(* "nan".                                                                  *)
(***************************************************************************)
EXTENDS Integers, Sequences, FiniteSets

\* ------------------------------------------------------------ bounds
MaxRows == 3        \* rows of an input table of the aggregation runs
MaxCallRows == 2    \* rows of an input table of the call-sequence runs
NumDrivers == 2     \* distinct driver names
MaxTime == 2        \* largest lap time, in time units
MaxN == 2           \* largest top_n passed to the emit operations
Scale == 2          \* time units per thousandth of a second

\* ------------------------------------------------------------ cells
Num(v) == [k |-> "num", v |-> v]
NaN == [k |-> "nan", v |-> 0]
Str == [k |-> "str", v |-> 0]
Name(d) == [k |-> "name", v |-> d]

DriverCells == {Name(d) : d \in 1..NumDrivers} \cup {NaN}
TimeCells == {Num(v) : v \in (-1)..MaxTime} \cup {NaN, Str}
RequiredColumns == {"Driver", "Time"}

\* a cell of a column the table does not have
Absent == NaN

RowsOver(D, T, n) == UNION {[1..m -> [Driver : D, Time : T]] : m \in 0..n}

\* what pd.read_csv can return for a file that exists: any subset of the
\* required columns, up to n rows of Driver cells D and Time cells T
Frames(D, T, n) ==
    {[cols |-> RequiredColumns, rows |-> r] : r \in RowsOver(D, T, n)}
    \cup {[cols |-> {"Driver"}, rows |-> r] : r \in RowsOver(D, {Absent}, n)}
    \cup {[cols |-> {"Time"}, rows |-> r] : r \in RowsOver({Absent}, T, n)}

NoFrame == [cols |-> {}, rows |-> <<>>]

\* the input file: missing, or holding a table
FilesOf(F) == {[exists |-> TRUE, df |-> f] : f \in F}
              \cup {[exists |-> FALSE, df |-> NoFrame]}

\* the inputs of the aggregation runs: every kind of cell, up to n rows
DataFiles(n) == FilesOf(Frames(DriverCells, TimeCells, n))

\* the inputs of the call-sequence runs: named drivers, each lap either at the
\* driver's own pace (d time units for driver d) or with a negative time
CallRows ==
    {[Driver |-> Name(d), Time |-> t] : d \in 1..NumDrivers, t \in {Num(-1)}}
    \cup {[Driver |-> Name(d), Time |-> Num(d)] : d \in 1..NumDrivers}

CallFrames ==
    {[cols |-> RequiredColumns, rows |-> r] :
        r \in UNION {[1..m -> CallRows] : m \in 0..MaxCallRows}}
    \cup Frames({Name(d) : d \in 1..NumDrivers}, {Num(-1)}, 1)

CallFiles == FilesOf(CallFrames)

\* ------------------------------------------------------------ validate_data
Column(df, c) == [i \in 1..Len(df.rows) |-> df.rows[i][c]]

\* pd.api.types.is_numeric_dtype(df['Time']): read_csv gives the column a
\* numeric dtype iff no cell holds text; empty cells become NaN in a float column
IsNumericDtype(col) == \A i \in 1..Len(col) : col[i].k # "str"

\* (df['Time'] < 0).any(): a comparison with NaN is False
AnyNegative(col) == \E i \in 1..Len(col) : col[i].k = "num" /\ col[i].v < 0

\* the ValueError validate_data raises, or "ok" when it returns True
validate_data(df) ==
    IF ~(RequiredColumns \subseteq df.cols) THEN "missing_columns"
    ELSE IF Len(df.rows) = 0 THEN "empty"
    ELSE IF ~IsNumericDtype(Column(df, "Time")) THEN "not_numeric"
    ELSE IF AnyNegative(Column(df, "Time")) THEN "negative"
    ELSE "ok"

\* extract(): "ok", or the error it re-raises
ExtractOutcome(f) ==
    IF ~f.exists THEN "file_not_found" ELSE validate_data(f.df)

\* ------------------------------------------------------------ transform
Min2(a, b) == IF a <= b THEN a ELSE b
Max2(a, b) == IF a >= b THEN a ELSE b

\* groupby('Driver'): one group per distinct Driver value, NaN keys dropped
\* (dropna=True), the groups in sorted key order (sort=True)
GroupKeys(df) ==
    {df.rows[i].Driver.v : i \in {j \in 1..Len(df.rows) : df.rows[j].Driver.k = "name"}}

RECURSIVE SortedKeys(_)
SortedKeys(S) ==
    IF S = {} THEN <<>>
    ELSE LET m == CHOOSE x \in S : \A y \in S : x <= y
         IN <<m>> \o SortedKeys(S \ {m})

\* the three aggregations of one group, accumulated over the rows in input
\* order; each skips NaN (skipna): sum and count for 'mean', 'min', 'count'
RECURSIVE GroupAgg(_, _, _, _)
GroupAgg(df, d, i, acc) ==
    IF i > Len(df.rows) THEN acc
    ELSE LET row == df.rows[i]
             hit == row.Driver = Name(d) /\ row.Time.k = "num"
             t == row.Time.v
         IN GroupAgg(df, d, i + 1,
                IF ~hit THEN acc
                ELSE [sum |-> acc.sum + t,
                      cnt |-> acc.cnt + 1,
                      min |-> IF acc.min.k = "nan" THEN Num(t)
                              ELSE Num(Min2(acc.min.v, t))])

GroupStat(df, d) ==
    LET a == GroupAgg(df, d, 1, [sum |-> 0, cnt |-> 0, min |-> NaN])
    IN [Driver |-> d, sum |-> a.sum, cnt |-> a.cnt, min |-> a.min]

\* driver_stats after groupby(...).agg(...).reset_index(): the mean is kept
\* as the fraction sum/cnt (NaN when cnt = 0)
GroupStats(df) ==
    LET keys == SortedKeys(GroupKeys(df))
    IN [g \in 1..Len(keys) |-> GroupStat(df, keys[g])]

IsNaNMean(s) == s.cnt = 0
MeanLess(a, b) == a.sum * b.cnt < b.sum * a.cnt

\* sort_values('average_time', ascending=True) with the default
\* kind='quicksort' and na_position='last': the rows with a mean come first in
\* ascending order of the (unrounded) mean, rows of equal mean in an order the
\* sort does not fix (quicksort is not stable); the NaN rows follow in their
\* original order.  MustPrecede(a, i, b, j): row a at position i has to come
\* before row b at position j.
MustPrecede(a, i, b, j) ==
    \/ ~IsNaNMean(a) /\ IsNaNMean(b)
    \/ ~IsNaNMean(a) /\ ~IsNaNMean(b) /\ MeanLess(a, b)
    \/ IsNaNMean(a) /\ IsNaNMean(b) /\ i < j

Permutations(n) ==
    {p \in [1..n -> 1..n] : \A i, j \in 1..n : i # j => p[i] # p[j]}

SortOutcomes(stats) ==
    {p \in Permutations(Len(stats)) :
        \A i, j \in 1..Len(stats) :
            i < j => ~MustPrecede(stats[p[j]], p[j], stats[p[i]], p[i])}

\* round-half-to-even of the fraction n/d (d > 0), as numpy's round does
HalfEven(n, d) ==
    LET q == n \div d
        r == n % d
    IN IF 2 * r < d THEN q
       ELSE IF 2 * r > d THEN q + 1
       ELSE IF q % 2 = 0 THEN q ELSE q + 1

\* .round(3) of a mean and of a minimum: thousandths of a second
RoundMean(s) == IF IsNaNMean(s) THEN NaN ELSE Num(HalfEven(s.sum, s.cnt * Scale))
RoundMin(s) == IF s.min.k = "nan" THEN NaN ELSE Num(HalfEven(s.min.v, Scale))

\* the frame transform() stores, for one outcome p of the sort
Ranked(stats, p) ==
    [r \in 1..Len(stats) |->
        [Driver |-> stats[p[r]].Driver,
         average_time |-> RoundMean(stats[p[r]]),
         fastest_time |-> RoundMin(stats[p[r]]),
         lap_count |-> stats[p[r]].cnt,
         rank |-> r]]

\* every frame transform() can compute for the validated frame df, one for
\* each outcome of the sort (the empty frame when there is no group)
TransformOutcomes(df) ==
    LET stats == GroupStats(df)
    IN {Ranked(stats, p) : p \in SortOutcomes(stats)}

\* ------------------------------------------------------------ get_top_n
\* head(n) without the truncation: every row
HeadRowsAll(rows, n) == rows

\* DataFrame.head(n): the first n rows; for negative n all but the last -n
HeadRows(rows, n) ==
    IF n >= 0 THEN SubSeq(rows, 1, Min2(n, Len(rows)))
    ELSE SubSeq(rows, 1, Max2(Len(rows) + n, 0))

\* int(self.data['Driver'].count()): the non-NaN Driver cells
DriverCount(df) == Cardinality({i \in 1..Len(df.rows) : df.rows[i].Driver.k # "nan"})

\* ------------------------------------------------------------ state
VARIABLES
    file,         \* the input file (self.input_file on disk)
    data,         \* self.data: [set, df]; set = FALSE is None
    results,      \* self.results: [set, rows]; set = FALSE is None
    csvOut,       \* the CSV output file: [exists, rows]
    jsonOut,      \* the JSON output file: [exists, top_drivers, totals]
    ret,          \* the frame the last get_top_n / print_summary returned or printed
    last,         \* the last call: [op, n, err]; err = "ok" or the error raised
    extracted,    \* history: some extract() has succeeded
    transformed   \* history: some transform() has succeeded

vars == <<file, data, results, csvOut, jsonOut, ret, last, extracted, transformed>>

None == [set |-> FALSE, df |-> NoFrame]
NoResults == [set |-> FALSE, rows |-> <<>>]
NoCsv == [exists |-> FALSE, rows |-> <<>>]
NoJson == [exists |-> FALSE, top_drivers |-> <<>>,
           total_drivers_analyzed |-> 0, total_laps_analyzed |-> 0]

\* top_n: int, not checked by the code; -1 stands for the negative values
TopNs == (-1)..MaxN

\* __init__: data and results are None; no output has been written
InitWith(F) ==
    /\ file \in F
    /\ data = None
    /\ results = NoResults
    /\ csvOut = NoCsv
    /\ jsonOut = NoJson
    /\ ret = <<>>
    /\ last = [op |-> "init", n |-> 0, err |-> "ok"]
    /\ extracted = FALSE
    /\ transformed = FALSE

Init == InitWith(CallFiles)

Called(op, n, err) == last' = [op |-> op, n |-> n, err |-> err]

\* extract(): read_csv, validate_data, then self.data = df; any error is
\* logged and re-raised before the assignment
Extract ==
    LET e == ExtractOutcome(file)
    IN /\ Called("extract", 0, e)
       /\ IF e = "ok"
          THEN data' = [set |-> TRUE, df |-> file.df] /\ extracted' = TRUE
          ELSE UNCHANGED <<data, extracted>>
       /\ UNCHANGED <<file, results, csvOut, jsonOut, ret, transformed>>

\* the error transform() raises on self.data, or "ok"
TransformError(d) ==
    IF ~d.set THEN "no_data"
    ELSE IF Len(GroupStats(d.df)) = 0 THEN "index_error"
    ELSE "ok"

\* transform(): self.results = driver_stats, assigned last
Transform ==
    LET e == TransformError(data)
    IN /\ Called("transform", 0, e)
       /\ IF e = "ok"
          THEN /\ \E r \in TransformOutcomes(data.df) : results' = [set |-> TRUE, rows |-> r]
               /\ transformed' = TRUE
          ELSE UNCHANGED <<results, transformed>>
       /\ UNCHANGED <<file, data, csvOut, jsonOut, ret, extracted>>

\* get_top_n without its check of self.results
TopNErrorUnchecked(r) == "ok"

\* the error get_top_n raises on self.results, or "ok"
TopNError(r) == IF ~r.set THEN "no_results" ELSE "ok"

\* get_top_n(n): self.results.head(n)
GetTopN(n) ==
    LET e == TopNError(results)
    IN /\ Called("get_top_n", n, e)
       /\ ret' = IF e = "ok" THEN HeadRows(results.rows, n) ELSE <<>>
       /\ UNCHANGED <<file, data, results, csvOut, jsonOut, extracted, transformed>>

\* what load_csv writes
CsvContent(r, n) == [exists |-> TRUE, rows |-> HeadRows(r.rows, n)]

\* what load_json writes
JsonContent(d, r, n) ==
    [exists |-> TRUE,
     top_drivers |-> HeadRows(r.rows, n),
     total_drivers_analyzed |-> Len(r.rows),
     total_laps_analyzed |-> DriverCount(d.df)]

\* the error of a load on results r when the output file can (w) or cannot be
\* opened for writing
LoadError(r, w) ==
    IF TopNError(r) # "ok" THEN TopNError(r)
    ELSE IF ~w THEN "os_error"
    ELSE "ok"

\* load_csv(output_file, n): get_top_n, then to_csv
LoadCsv(n, w) ==
    LET e == LoadError(results, w)
    IN /\ Called("load_csv", n, e)
       /\ csvOut' = IF e = "ok" THEN CsvContent(results, n) ELSE csvOut
       /\ ret' = <<>>
       /\ UNCHANGED <<file, data, results, jsonOut, extracted, transformed>>

\* load_json(output_file, n): get_top_n, the dictionary, then open and dump
LoadJson(n, w) ==
    LET e == LoadError(results, w)
    IN /\ Called("load_json", n, e)
       /\ jsonOut' = IF e = "ok" THEN JsonContent(data, results, n) ELSE jsonOut
       /\ ret' = <<>>
       /\ UNCHANGED <<file, data, results, csvOut, extracted, transformed>>

\* print_summary(n): get_top_n, then the report of those rows
PrintSummary(n) ==
    LET e == TopNError(results)
    IN /\ Called("print_summary", n, e)
       /\ ret' = IF e = "ok" THEN HeadRows(results.rows, n) ELSE <<>>
       /\ UNCHANGED <<file, data, results, csvOut, jsonOut, extracted, transformed>>

\* run_pipeline(output_csv, output_json, n): extract, transform, load_csv,
\* load_json, print_summary in this order; the first error ends the run and is
\* re-raised, what the earlier steps did stays done.  wc, wj: whether the CSV
\* and the JSON output file can be opened for writing.
RunPipeline(n, wc, wj) ==
    LET e1 == ExtractOutcome(file)
        d1 == IF e1 = "ok" THEN [set |-> TRUE, df |-> file.df] ELSE data
        e2 == IF e1 # "ok" THEN e1 ELSE TransformError(d1)
    IN /\ data' = d1
       /\ extracted' = (extracted \/ e1 = "ok")
       /\ IF e2 # "ok"
          THEN /\ Called("run_pipeline", n, e2)
               /\ ret' = <<>>
               /\ UNCHANGED <<results, csvOut, jsonOut, transformed>>
          ELSE \E r \in TransformOutcomes(d1.df) :
                 LET r1 == [set |-> TRUE, rows |-> r]
                     e3 == LoadError(r1, wc)
                     e4 == IF e3 # "ok" THEN e3 ELSE LoadError(r1, wj)
                 IN /\ results' = r1
                    /\ transformed' = TRUE
                    /\ csvOut' = IF e3 = "ok" THEN CsvContent(r1, n) ELSE csvOut
                    /\ jsonOut' = IF e4 = "ok" THEN JsonContent(d1, r1, n) ELSE jsonOut
                    /\ ret' = IF e4 = "ok" THEN HeadRows(r, n) ELSE <<>>
                    /\ Called("run_pipeline", n, e4)
       /\ UNCHANGED file

\* the calls a client can make on one processor, the input file fixed
Next ==
    \/ Extract
    \/ Transform
    \/ \E n \in TopNs : GetTopN(n)
    \/ \E n \in TopNs, w \in BOOLEAN : LoadCsv(n, w)
    \/ \E n \in TopNs, w \in BOOLEAN : LoadJson(n, w)
    \/ \E n \in TopNs : PrintSummary(n)
    \/ \E n \in TopNs, wc \in BOOLEAN, wj \in BOOLEAN : RunPipeline(n, wc, wj)

Spec == Init /\ [][Next]_vars

\* the aggregation runs: one pass of extract, transform and load_json over
\* every kind of input table
InitData == InitWith(DataFiles(MaxRows))

NextData ==
    \/ Extract
    \/ Transform
    \/ \E n \in TopNs : LoadJson(n, TRUE)

SpecData == InitData /\ [][NextData]_vars

\* the input file is rewritten between the calls
RewriteInput(f) ==
    /\ file' = f
    /\ f # file
    /\ Called("rewrite_input", 0, "ok")
    /\ ret' = <<>>
    /\ UNCHANGED <<data, results, csvOut, jsonOut, extracted, transformed>>

NextRerun ==
    \/ Extract
    \/ Transform
    \/ \E n \in TopNs : LoadJson(n, TRUE)
    \/ \E f \in CallFiles : RewriteInput(f)

SpecRerun == Init /\ [][NextRerun]_vars

\* ------------------------------------------------------------ properties
\* comparisons of reported values; a comparison with NaN is false
IsNum(c) == c.k = "num"
Le(a, b) == IsNum(a) /\ IsNum(b) /\ a.v <= b.v
Eq(a, b) == IsNum(a) /\ IsNum(b) /\ a.v = b.v

Rows(df) == 1..Len(df.rows)
NoMissingCells(df) ==
    \A i \in Rows(df) : df.rows[i].Driver.k # "nan" /\ df.rows[i].Time.k # "nan"

\* the records of driver d, and the distinct drivers, of a table
RecordsOf(df, d) == {i \in Rows(df) : df.rows[i].Driver = Name(d)}
DistinctDrivers(df) == {d \in 1..NumDrivers : RecordsOf(df, d) # {}}

RECURSIVE SumOver(_, _)
SumOver(f, S) ==
    IF S = {} THEN 0
    ELSE LET x == CHOOSE y \in S : TRUE IN f[x] + SumOver(f, S \ {x})

\* C1: validate_data rejects every table that lacks the Driver or Time column,
\* has zero rows, has a Time column that is not numeric or holds a negative
\* Time; it accepts only when no rule is violated, so every Time value of an
\* accepted table is a number >= 0; after a rejected extract() data is unset.
C1_AcceptedTimesNonNegative ==
    (last.op = "extract" /\ file.exists) =>
        LET df == file.df
            bad == \/ ~({"Driver", "Time"} \subseteq df.cols)
                   \/ Len(df.rows) = 0
                   \/ \E i \in Rows(df) : df.rows[i].Time.k = "str"
                   \/ \E i \in Rows(df) : IsNum(df.rows[i].Time) /\ df.rows[i].Time.v < 0
        IN /\ bad => last.err # "ok"
           /\ last.err = "ok" =>
                 /\ ~bad
                 /\ \A i \in Rows(df) : IsNum(df.rows[i].Time) /\ df.rows[i].Time.v >= 0
           /\ last.err # "ok" => ~data.set

\* the part of C1 the code keeps: the four rejections, acceptance only when
\* none applies, and no data after a rejection
C1_RejectionRules ==
    (last.op = "extract" /\ file.exists) =>
        LET df == file.df
            bad == \/ ~({"Driver", "Time"} \subseteq df.cols)
                   \/ Len(df.rows) = 0
                   \/ \E i \in Rows(df) : df.rows[i].Time.k = "str"
                   \/ \E i \in Rows(df) : IsNum(df.rows[i].Time) /\ df.rows[i].Time.v < 0
        IN /\ bad <=> last.err # "ok"
           /\ last.err # "ok" => ~data.set

\* C3: after transform() the sum of lap_count over the result rows equals the
\* number of input records, and each driver's lap_count the number of input
\* records with that driver.
LapCountsMatch(df, rows) ==
    /\ SumOver([i \in 1..Len(rows) |-> rows[i].lap_count], 1..Len(rows)) = Len(df.rows)
    /\ \A i \in 1..Len(rows) :
          rows[i].lap_count = Cardinality(RecordsOf(df, rows[i].Driver))

C3_LapCountsMatchRecords == results.set => LapCountsMatch(data.df, results.rows)

C3_WithoutMissingCells ==
    (results.set /\ NoMissingCells(data.df)) => LapCountsMatch(data.df, results.rows)

\* C4: the result has exactly one row per distinct driver, ranks 1..K in row
\* order, the reported average_time non-decreasing with the rank, and the
\* rank-1 average_time is the minimum of all rows.
RankedByAverage(df, rows) ==
    /\ Len(rows) = Cardinality(DistinctDrivers(df))
    /\ \A d \in DistinctDrivers(df) :
          Cardinality({i \in 1..Len(rows) : rows[i].Driver = d}) = 1
    /\ \A i \in 1..Len(rows) : rows[i].rank = i
    /\ \A i, j \in 1..Len(rows) :
          i < j => Le(rows[i].average_time, rows[j].average_time)
    /\ \A j \in 1..Len(rows) : Le(rows[1].average_time, rows[j].average_time)

C4_RanksDenseAndOrdered == results.set => RankedByAverage(data.df, results.rows)

C4_WithoutMissingCells ==
    (results.set /\ NoMissingCells(data.df)) => RankedByAverage(data.df, results.rows)

\* C9: for every driver, fastest_time is the minimum and average_time the mean
\* of that driver's lap times, each rounded to 3 decimals; so
\* fastest_time <= average_time, with equality when all of the driver's lap
\* times are identical.
TimesOf(df, d) == [i \in RecordsOf(df, d) |-> df.rows[i].Time]

FastestAndAverage(df, rows) ==
    \A r \in 1..Len(rows) :
        LET T == TimesOf(df, rows[r].Driver)
            N == {i \in DOMAIN T : IsNum(T[i])}
        IN /\ \E m \in N :
                 /\ \A i \in N : T[m].v <= T[i].v
                 /\ rows[r].fastest_time = Num(HalfEven(T[m].v, Scale))
           /\ rows[r].average_time =
                 Num(HalfEven(SumOver([i \in N |-> T[i].v], N), Cardinality(N) * Scale))
           /\ Le(rows[r].fastest_time, rows[r].average_time)
           /\ (\A i, j \in DOMAIN T : T[i] = T[j]) =>
                 Eq(rows[r].fastest_time, rows[r].average_time)

C9_FastestAndAverage == results.set => FastestAndAverage(data.df, results.rows)

C9_WithoutMissingCells ==
    (results.set /\ NoMissingCells(data.df)) => FastestAndAverage(data.df, results.rows)

\* the outcome of the sort that keeps rows of equal mean in their original
\* order, as a stable sort would
KeepsTieOrder(stats, p) ==
    \A i, j \in 1..Len(stats) :
        (i < j /\ ~MustPrecede(stats[p[i]], p[i], stats[p[j]], p[j])) => p[i] < p[j]

\* C8: drivers with equal average_time are ranked in the order in which the
\* aggregation stage produced them (the groupby order, ascending Driver), the
\* earlier one getting the smaller rank.  Stated for the runs in which the
\* sort kept rows of equal mean in their original order, the case most
\* favourable to the claim.
C8_TiesInFirstSeenOrder ==
    (/\ results.set
     /\ \E p \in SortOutcomes(GroupStats(data.df)) :
           /\ KeepsTieOrder(GroupStats(data.df), p)
           /\ results.rows = Ranked(GroupStats(data.df), p)) =>
        \A i, j \in 1..Len(results.rows) :
            (i < j /\ Eq(results.rows[i].average_time, results.rows[j].average_time))
                => results.rows[i].Driver < results.rows[j].Driver

\* C6: the summary load_json(top_n=N) writes has top_drivers of length
\* min(N, K), total_drivers_analyzed = K and total_laps_analyzed = the number
\* of input records (stated here for N >= 0 only).
C6_SummaryTotals ==
    (last.op = "load_json" /\ last.err = "ok" /\ last.n >= 0) =>
        LET K == Cardinality(DistinctDrivers(data.df))
        IN /\ Len(jsonOut.top_drivers) = Min2(last.n, K)
           /\ jsonOut.total_drivers_analyzed = K
           /\ jsonOut.total_laps_analyzed = Len(data.df.rows)

C6_WithoutMissingCells ==
    (last.op = "load_json" /\ last.err = "ok" /\ last.n >= 0 /\ NoMissingCells(data.df)) =>
        LET K == Cardinality(DistinctDrivers(data.df))
        IN /\ Len(jsonOut.top_drivers) = Min2(last.n, K)
           /\ jsonOut.total_drivers_analyzed = K
           /\ jsonOut.total_laps_analyzed = Len(data.df.rows)

\* C10: whenever results is set it is the aggregation of the stored data, so
\* the totals and the top_drivers of load_json describe the same input.
C10_ResultsDescribeData ==
    /\ results.set => (data.set /\ results.rows \in TransformOutcomes(data.df))
    /\ (last.op = "load_json" /\ last.err = "ok") =>
          /\ jsonOut.top_drivers \in
                {HeadRows(r, last.n) : r \in TransformOutcomes(data.df)}
          /\ jsonOut.total_drivers_analyzed = Len(GroupStats(data.df))

\* the part of C10 the code keeps: a failed extract() leaves data and results
\* as they were
C10_FailedExtractKeepsState ==
    [][(last'.op = "extract" /\ last'.err # "ok") => UNCHANGED <<data, results>>]_vars

\* C7: whenever run_pipeline raises, both output files are as they were before
\* the run.
C7_NoOutputOnError ==
    [][(last'.op = "run_pipeline" /\ last'.err # "ok")
          => (csvOut' = csvOut /\ jsonOut' = jsonOut)]_vars

\* the part of C7 the code keeps: a run that fails in extract or transform
\* writes nothing, and a run writes only results it has validated and ranked
C7_NoOutputBeforeRanking ==
    [][last'.op = "run_pipeline" =>
          /\ last'.err \notin {"ok", "os_error"} => (csvOut' = csvOut /\ jsonOut' = jsonOut)
          /\ (csvOut' # csvOut \/ jsonOut' # jsonOut) =>
                (data'.set /\ results'.set /\ validate_data(data'.df) = "ok")]_vars

EmitOps == {"get_top_n", "load_csv", "load_json", "print_summary"}

\* C2: transform() raises whenever no extract() has yet succeeded, and
\* get_top_n(), load_csv(), load_json() and print_summary() raise whenever no
\* transform() has yet succeeded; such a call changes neither data nor
\* results and writes no output.
C2_StagesInOrder ==
    [][/\ (last'.op = "transform" /\ ~extracted) =>
             (last'.err # "ok" /\ UNCHANGED <<data, results, csvOut, jsonOut>>)
       /\ (last'.op \in EmitOps /\ ~transformed) =>
             (last'.err # "ok" /\ ret' = <<>>
              /\ UNCHANGED <<data, results, csvOut, jsonOut>>)]_vars

\* an emit operation called after extract() and before transform() has raised
C2_Witness ==
    /\ last.op = "load_json"
    /\ last.err = "no_results"
    /\ extracted /\ ~transformed
    /\ ~jsonOut.exists

\* C5 as stated: get_top_n(N) returns the first min(N, K) rows of the ranked
\* result, N rows when N <= K and K rows when N >= K.
C5_TopNIsMinNK ==
    (last.op = "get_top_n" /\ last.err = "ok") =>
        LET K == Cardinality(DistinctDrivers(data.df))
        IN /\ Len(ret) = Min2(last.n, K)
           /\ \A i \in 1..Len(ret) : ret[i] = results.rows[i]

\* C5 amended: for N >= 0 get_top_n(N) returns the first min(N, K) rows of
\* the ranked result, in rank order (ranks 1..min(N, K)): N rows when N <= K,
\* K rows when N >= K; for N < 0 it returns the first max(K + N, 0) rows; it
\* does not change the stored result.
C5_TopNRows ==
    [][(last'.op = "get_top_n" /\ last'.err = "ok") =>
          LET K == Cardinality(DistinctDrivers(data.df))
              N == last'.n
              m == IF N >= 0 THEN (IF N <= K THEN N ELSE K)
                   ELSE (IF K + N >= 0 THEN K + N ELSE 0)
          IN /\ Len(ret') = m
             /\ \A i \in 1..m : ret'[i] = results.rows[i] /\ ret'[i].rank = i
             /\ results' = results
             /\ Len(results.rows) = K]_vars

\* get_top_n(N) with N > K has returned all K rows
C5_Witness ==
    /\ last.op = "get_top_n"
    /\ last.err = "ok"
    /\ last.n > Len(results.rows)
    /\ Len(ret) = Len(results.rows)
    /\ Len(ret) > 0

====
